---- MODULE Spec2Model ----
(***************************************************************************)
(* A model of src/src/main.ts: the tiled map game with per-cell caches,    *)
(* the memento table, the transfer of coins, the geolocation watch and the *)
(* session persistence in localStorage.                                    *)
(*                                                                         *)
(* Positions are integers: one position unit is half a tile (about 5 m),   *)
(* so TILE_DEGREES is 2 units.  luck() values are in thousandths.          *)
(* A string that holds JSON text is the record Text(v): for the table, the *)
(* position and the trail v is the value the text denotes, for a memento v *)
(* is the sequence of the text's lexical tokens.  The strings JSON.parse   *)
(* rejects are Malformed and EmptyText.                                    *)
(* CellSpec looks at getCellFromPoint alone and carries out its division   *)
(* in IEEE 754 double arithmetic.  BoardSpec looks at the board alone and  *)
(* keeps the Cell objects of its Map with their references.                *)
(***************************************************************************)
EXTENDS Integers, Sequences, FiniteSets, TLC

VARIABLES
    pc,          \* "start" | "loaded" | "running" | "reloading" | "crashed"
    storage,     \* localStorage: the items under "data", "loc" and "hist"
    saveListener,\* whether saveData is registered for beforeunload
    momentos,    \* Map<string,string>, as its entries in insertion order
    inventory,   \* the inventory Cache object
    caches,      \* the Cache objects on the map, in the order addCache got them
    origin,      \* the player's position
    locHistory,  \* the movement trail: polylines of positions
    geoloc,      \* the geolocation flag
    watchID,     \* the id toggleGeolocation remembers (0: never assigned)
    watches,     \* the ids of the position watches the browser still runs
    nextWatch,   \* the id the browser hands out next
    known_cells, \* board.known_cells: the keys getCell has stored a cell under
    saved,       \* history: the live state saveData last serialized, if any
    last         \* history: the phase of the page's life the last step belongs to

vars == <<pc, storage, saveListener, momentos, inventory, caches, origin,
          locHistory, geoloc, watchID, watches, nextWatch, known_cells, saved,
          last>>

-----------------------------------------------------------------------------
(* Bounds of the model *)

MaxTrail == 2
MaxWatches == 2
MaxButtons == 3

(* Program constants *)

TILE_DEGREES == 2
NEIGHBORHOOD_SIZE == 8
CACHE_SPAWN_PROBABILITY == 100
HISTORY_UPDATE_DISTANCE == 20

latLng(lat, lng) == [lat |-> lat, lng |-> lng]

OAKES_CLASSROOM == latLng(3, 5)

(* The positions the geolocation watch reports. *)
GeoPoints == {latLng(0, 20), latLng(-40, -41)}

(* The four movement buttons. *)
Directions == {latLng(TILE_DEGREES, 0), latLng(-TILE_DEGREES, 0),
               latLng(0, -TILE_DEGREES), latLng(0, TILE_DEGREES)}

(* What the user types into the reset prompt: <<>> is a cancelled prompt. *)
Confirmations == {<<"DELETE">>, <<"delete">>, <<"">>, <<>>}

-----------------------------------------------------------------------------
(* Strings and JSON *)

Null == [kind |-> "null"]
EmptyText == [kind |-> "empty"]
Malformed == [kind |-> "malformed"]
Text(v) == [kind |-> "json", value |-> v]

Truthy(s) == s.kind \notin {"null", "empty"}
Throws(s) == s.kind # "json"
JSONstringify(v) == Text(v)
JSONparse(s) == s.value

(* [i, j].toString() *)
CellKey(i, j) == ToString(i) \o "," \o ToString(j)

(* luck(key), in thousandths: the keys below, and 500 for every other key. *)
(* The value of "1,1" is the spawn threshold itself.                       *)
LuckTable ==
    {[key |-> "0,0", i |-> 0, j |-> 0, value |-> 50],
     [key |-> "0,9", i |-> 0, j |-> 9, value |-> 0],
     [key |-> "1,1", i |-> 1, j |-> 1, value |-> 100]}

luck(key) ==
    IF \E e \in LuckTable : e.key = key
    THEN (CHOOSE e \in LuckTable : e.key = key).value
    ELSE 500

-----------------------------------------------------------------------------
(* Map<string,string> *)

MapHas(m, k) == \E n \in 1..Len(m) : m[n][1] = k
MapIndex(m, k) == CHOOSE n \in 1..Len(m) : m[n][1] = k
MapGet(m, k) == m[MapIndex(m, k)][2]

(* A set that deletes the entry instead when the value is the text "[]". *)
MapSetDropEmpty(m, k, v) ==
    IF v = Text(<<"[", "]">>) THEN SelectSeq(m, LAMBDA e : e[1] # k)
    ELSE IF MapHas(m, k) THEN [m EXCEPT ![MapIndex(m, k)] = <<k, v>>]
    ELSE Append(m, <<k, v>>)

MapSet(m, k, v) ==
    IF MapHas(m, k) THEN [m EXCEPT ![MapIndex(m, k)] = <<k, v>>]
    ELSE Append(m, <<k, v>>)

RECURSIVE SetAll(_, _)
SetAll(m, entries) ==
    IF entries = <<>> THEN m
    ELSE SetAll(MapSet(m, Head(entries)[1], Head(entries)[2]), Tail(entries))

-----------------------------------------------------------------------------
(* Caches and coins *)

Coin(i, j, serial) == [cell |-> [i |-> i, j |-> j], serial |-> serial]

(* A loop that counts from one: for (let k = 1; k <= num_coins; k++). *)
createCacheFromOne(i, j, num_coins) ==
    [cell |-> [i |-> i, j |-> j],
     coins |-> [k \in 1..num_coins |-> Coin(i, j, k)],
     str |-> CellKey(i, j)]

createCache(i, j, num_coins) ==
    [cell |-> [i |-> i, j |-> j],
     coins |-> [k \in 1..num_coins |-> Coin(i, j, k - 1)],
     str |-> CellKey(i, j)]

(* JSON.stringify of a coin: the tokens of {"cell":{"i":i,"j":j},"serial":k}; *)
(* a number token is the number.                                             *)
CoinText(coin) ==
    <<"{", "cell", ":", "{", "i", ":", coin.cell.i, ",", "j", ":", coin.cell.j, "}",
      ",", "serial", ":", coin.serial, "}">>

CoinTextLen == Len(CoinText([cell |-> [i |-> 0, j |-> 0], serial |-> 0]))

RECURSIVE JoinCoins(_)
JoinCoins(coins) ==
    IF Len(coins) = 0 THEN <<>>
    ELSE IF Len(coins) = 1 THEN CoinText(coins[1])
    ELSE CoinText(coins[1]) \o <<",">> \o JoinCoins(Tail(coins))

(* JSON.stringify of a coin array: [coin,coin,...] *)
CoinsText(coins) == <<"[">> \o JoinCoins(coins) \o <<"]">>

(* A parse that reads every coin's cell as (i, i). *)
CoinOfRowOnly(tokens) ==
    [cell |-> [i |-> tokens[7], j |-> tokens[7]], serial |-> tokens[16]]

(* JSON.parse of the text of one coin: the numbers after "i", "j", "serial". *)
CoinOf(tokens) ==
    [cell |-> [i |-> tokens[7], j |-> tokens[11]], serial |-> tokens[16]]

(* JSON.parse of the text of a coin array: each coin text and its separator *)
(* take CoinTextLen + 1 tokens.                                             *)
CoinsOf(tokens) ==
    LET step == CoinTextLen + 1
        n == (Len(tokens) - 1) \div step
    IN [k \in 1..n |->
          CoinOf(SubSeq(tokens, 2 + step * (k - 1), step * k))]

toMomento(cache) == JSONstringify(CoinsText(cache.coins))
fromMomento(cache, momento) == [cache EXCEPT !.coins = CoinsOf(JSONparse(momento))]

(* An inventory that keeps the toString of createCache(0, 0, 0). *)
NewInventoryAsCell == createCache(0, 0, 0)

NewInventory == [createCache(0, 0, 0) EXCEPT !.str = "inventory"]

(* coins[i] of a JavaScript array: <<c>> for an element, <<>> for undefined *)
At(coins, i) == IF i \in 0..(Len(coins) - 1) THEN <<coins[i + 1]>> ELSE <<>>

(* coins.indexOf(coin): zero-based, -1 when absent *)
IndexOf(coins, coin) ==
    IF coin # <<>> /\ \E n \in 1..Len(coins) : coins[n] = coin[1]
    THEN (CHOOSE n \in 1..Len(coins) :
            /\ coins[n] = coin[1]
            /\ \A k \in 1..(n - 1) : coins[k] # coin[1]) - 1
    ELSE -1

(* A splice that removes nothing: the coin is copied, not moved. *)
SpliceKeep(coins, index) == coins

(* coins.splice(index, 1) *)
Splice(coins, index) ==
    [n \in 1..(Len(coins) - 1) |-> IF n <= index THEN coins[n] ELSE coins[n + 1]]

Found(index) == index >= 0

(* A transfer that forgets to save the source. *)
transferNoSourceSave(a, b, coin, m) ==
    LET index == IndexOf(a.coins, coin) IN
    IF ~Found(index)
    THEN [a |-> a, b |-> b, momentos |-> m, moved |-> FALSE]
    ELSE LET a2 == [a EXCEPT !.coins = Splice(a.coins, index)]
             b2 == [b EXCEPT !.coins = Append(b.coins, coin[1])]
         IN [a |-> a2, b |-> b2, momentos |-> MapSet(m, b2.str, toMomento(b2)),
             moved |-> TRUE]

(* A transfer that forgets to save the destination. *)
transferNoDestSave(a, b, coin, m) ==
    LET index == IndexOf(a.coins, coin) IN
    IF ~Found(index)
    THEN [a |-> a, b |-> b, momentos |-> m, moved |-> FALSE]
    ELSE LET a2 == [a EXCEPT !.coins = Splice(a.coins, index)]
             b2 == [b EXCEPT !.coins = Append(b.coins, coin[1])]
         IN [a |-> a2, b |-> b2, momentos |-> MapSet(m, a2.str, toMomento(a2)),
             moved |-> TRUE]

(* A transfer that saves both ends before it looks for the coin. *)
transferSaveFirst(a, b, coin, m) ==
    LET index == IndexOf(a.coins, coin)
        m0 == MapSet(MapSet(m, a.str, toMomento(a)), b.str, toMomento(b))
    IN
    IF ~Found(index)
    THEN [a |-> a, b |-> b, momentos |-> m0, moved |-> FALSE]
    ELSE LET a2 == [a EXCEPT !.coins = Splice(a.coins, index)]
             b2 == [b EXCEPT !.coins = Append(b.coins, coin[1])]
             m1 == MapSet(m0, a2.str, toMomento(a2))
             m2 == MapSet(m1, b2.str, toMomento(b2))
         IN [a |-> a2, b |-> b2, momentos |-> m2, moved |-> TRUE]

transfer(a, b, coin, m) ==
    LET index == IndexOf(a.coins, coin) IN
    IF ~Found(index)
    THEN [a |-> a, b |-> b, momentos |-> m, moved |-> FALSE]
    ELSE LET a2 == [a EXCEPT !.coins = Splice(a.coins, index)]
             b2 == [b EXCEPT !.coins = Append(b.coins, coin[1])]
             m1 == MapSet(m, a2.str, toMomento(a2))
             m2 == MapSet(m1, b2.str, toMomento(b2))
         IN [a |-> a2, b |-> b2, momentos |-> m2, moved |-> TRUE]

-----------------------------------------------------------------------------
(* The board.  known_cells is the set of keys of the Map: the entry under   *)
(* CellKey(i, j) is the cell {i, j} that getCell stored with it.           *)

getCell(i, j) == [i |-> i, j |-> j]

getCellFromPoint(point) ==
    getCell(point.lat \div TILE_DEGREES, point.lng \div TILE_DEGREES)

(* A neighbourhood that takes the offsets -r..r on both axes. *)
getCellsNearPointInclusive(point) ==
    LET o == getCellFromPoint(point)
        r == NEIGHBORHOOD_SIZE
        w == 2 * r + 1
    IN [n \in 1..(w * w) |->
          getCell(((n - 1) \div w) - r + o.i, ((n - 1) % w) - r + o.j)]

getCellsNearPoint(point) ==
    LET o == getCellFromPoint(point)
        r == NEIGHBORHOOD_SIZE
    IN [n \in 1..(4 * r * r) |->
          getCell(((n - 1) \div (2 * r)) - r + o.i, ((n - 1) % (2 * r)) - r + o.j)]

(* The table after the getCell calls of getCellsNearPoint(point). *)
KnownAfter(known, point) ==
    LET cells == getCellsNearPoint(point)
    IN known \cup {CellKey(cells[n].i, cells[n].j) : n \in DOMAIN cells}

-----------------------------------------------------------------------------
(* The map refresh *)

(* A threshold that is not strict. *)
SpawnsAtThreshold(chance) == chance <= CACHE_SPAWN_PROBABILITY

Spawns(chance) == chance < CACHE_SPAWN_PROBABILITY

(* The multiplier 3 of the earlier variants of the program. *)
NumCoinsTimes3(chance) == ((chance * 3) \div 1000) + 1

NumCoins(chance) == ((chance * 30) \div 1000) + 1

(* [i + j].toString(): the key of the second draw of the earlier variants. *)
SumKey(cell) == ToString(cell.i + cell.j)

(* A generator that draws the number of coins under the second key. *)
CacheForSecondDraw(cell, m) ==
    LET key == CellKey(cell.i, cell.j)
    IN IF ~MapHas(m, key)
       THEN createCache(cell.i, cell.j, NumCoins(luck(SumKey(cell))))
       ELSE fromMomento(createCache(cell.i, cell.j, 0), MapGet(m, key))

(* A generator whose number of coins grows with the table. *)
CacheForCounting(cell, m) ==
    LET key == CellKey(cell.i, cell.j)
    IN IF ~MapHas(m, key)
       THEN createCache(cell.i, cell.j, NumCoins(luck(key)) + Len(m))
       ELSE fromMomento(createCache(cell.i, cell.j, 0), MapGet(m, key))

(* A display that always regenerates the cache. *)
CacheForFresh(cell, m) ==
    createCache(cell.i, cell.j, NumCoins(luck(CellKey(cell.i, cell.j))))

CacheFor(cell, m) ==
    LET key == CellKey(cell.i, cell.j)
    IN IF ~MapHas(m, key)
       THEN createCache(cell.i, cell.j, NumCoins(luck(key)))
       ELSE fromMomento(createCache(cell.i, cell.j, 0), MapGet(m, key))

(* The caches showNearbyCaches hands to mapService.addCache, in order. *)
showNearbyCaches(coord, m) ==
    LET cells == getCellsNearPoint(coord)
        spawning == SelectSeq(cells, LAMBDA c : Spawns(luck(CellKey(c.i, c.j))))
    IN [n \in 1..Len(spawning) |-> CacheFor(spawning[n], m)]

(* leaflet's distanceTo, in whole metres: a position unit is 5 m. *)
calculateDistance(a, b) ==
    LET dlat == a.lat - b.lat
        dlng == a.lng - b.lng
        sq == 25 * (dlat * dlat + dlng * dlng)
        top == 5 * ((IF dlat < 0 THEN -dlat ELSE dlat)
                    + (IF dlng < 0 THEN -dlng ELSE dlng))
    IN CHOOSE d \in 0..top : d * d <= sq /\ sq < (d + 1) * (d + 1)

Within(distance) == distance < HISTORY_UPDATE_DISTANCE

updateLocationHistory(hist, org) ==
    IF Len(hist) = 0 THEN Append(hist, <<org>>)
    ELSE LET lastPos == hist[Len(hist)]
         IN IF Within(calculateDistance(org, lastPos[Len(lastPos)]))
            THEN [hist EXCEPT ![Len(hist)] = Append(lastPos, org)]
            ELSE Append(hist, <<org>>)

RECURSIVE TrailPoints(_)
TrailPoints(hist) ==
    IF hist = <<>> THEN 0 ELSE Len(Head(hist)) + TrailPoints(Tail(hist))

(* A refresh that leaves the caches of the last refresh on the map. *)
RefreshMapKeepsOld(org, known) ==
    /\ caches' = caches \o showNearbyCaches(org, momentos)
    /\ locHistory' = updateLocationHistory(locHistory, org)
    /\ known_cells' = KnownAfter(known, org)

(* A refresh that records the position the player had before the step. *)
RefreshMapRecordsOld(org, known) ==
    /\ caches' = showNearbyCaches(org, momentos)
    /\ locHistory' = updateLocationHistory(locHistory, origin)
    /\ known_cells' = KnownAfter(known, org)

(* refreshMap() with the player at org: the primed display, trail and board. *)
RefreshMap(org, known) ==
    /\ caches' = showNearbyCaches(org, momentos)
    /\ locHistory' = updateLocationHistory(locHistory, org)
    /\ known_cells' = KnownAfter(known, org)

-----------------------------------------------------------------------------
(* Session persistence *)

EmptyStore == [data |-> Null, loc |-> Null, hist |-> Null]

(* A save that writes the position as [lng, lat]. *)
saveDataSwapped(m, org, hist) ==
    [data |-> JSONstringify(m),
     loc |-> JSONstringify(<<org.lng, org.lat>>),
     hist |-> JSONstringify(hist)]

saveData(m, org, hist) ==
    [data |-> JSONstringify(m),
     loc |-> JSONstringify(<<org.lat, org.lng>>),
     hist |-> JSONstringify(hist)]

(* loadData(): the module state it leaves, and whether it threw. *)
loadData(st, m, inv, org, hist) ==
    LET same == [momentos |-> m, inventory |-> inv, origin |-> org,
                 locHistory |-> hist, threw |-> FALSE]
    IN IF ~Truthy(st.data) THEN same
       ELSE IF Throws(st.data) THEN [same EXCEPT !.threw = TRUE]
       ELSE
         LET m2 == SetAll(m, JSONparse(st.data))
             hasInv == MapHas(m2, "inventory") /\ Truthy(MapGet(m2, "inventory"))
             inv2 == IF hasInv THEN fromMomento(inv, MapGet(m2, "inventory"))
                     ELSE inv
             s2 == [same EXCEPT !.momentos = m2, !.inventory = inv2]
         IN IF Truthy(st.loc) /\ Throws(st.loc) THEN [s2 EXCEPT !.threw = TRUE]
            ELSE
              LET org2 == IF Truthy(st.loc)
                          THEN latLng(JSONparse(st.loc)[1], JSONparse(st.loc)[2])
                          ELSE org
                  s3 == [s2 EXCEPT !.origin = org2]
              IN IF Truthy(st.hist) /\ Throws(st.hist)
                 THEN [s3 EXCEPT !.threw = TRUE]
                 ELSE IF Truthy(st.hist)
                      THEN [s3 EXCEPT !.locHistory = hist \o JSONparse(st.hist)]
                      ELSE s3

(* A comparison that ignores case. *)
ConfirmedAnyCase(confirmation) == confirmation \in {<<"DELETE">>, <<"delete">>}

Confirmed(confirmation) == confirmation = <<"DELETE">>

(* A clearData() that leaves saveData registered. *)
ListenerKept == TRUE

(* clearData() ends with removeEventListener("beforeunload", saveData). *)
ListenerAfterClear == FALSE

-----------------------------------------------------------------------------
(* History variables.  A handler that returns without changing anything    *)
(* leaves them alone too, so that it is a stuttering step.                 *)

Op(name) == [op |-> name, reset |-> FALSE]

Snapshot == [momentos |-> momentos, inventory |-> inventory.coins,
             origin |-> origin, locHistory |-> locHistory]

-----------------------------------------------------------------------------
(* The state of a freshly loaded page, before loadData() runs. *)

FreshPage ==
    /\ pc = "start"
    /\ saveListener = TRUE
    /\ momentos = <<>>
    /\ inventory = NewInventory
    /\ caches = <<>>
    /\ origin = OAKES_CLASSROOM
    /\ locHistory = <<>>
    /\ geoloc = FALSE
    /\ watchID = 0
    /\ watches = {}
    /\ nextWatch = 1
    /\ known_cells = {}

Init ==
    /\ FreshPage
    /\ storage = EmptyStore
    /\ saved = <<>>
    /\ last = Op("init")

(* The startup sequence, first half: loadData(). *)
LoadData ==
    /\ pc = "start"
    /\ LET r == loadData(storage, momentos, inventory, origin, locHistory)
       IN /\ momentos' = r.momentos
          /\ inventory' = r.inventory
          /\ origin' = r.origin
          /\ locHistory' = r.locHistory
          /\ pc' = IF r.threw THEN "crashed" ELSE "loaded"
    /\ last' = [Op("load") EXCEPT !.reset = last.reset]
    /\ UNCHANGED <<storage, saveListener, caches, geoloc, watchID, watches,
                   nextWatch, known_cells, saved>>

(* The startup sequence, second half: createBoard() ... refreshMap(). *)
StartupRefresh ==
    /\ pc = "loaded"
    /\ TrailPoints(locHistory) < MaxTrail
    /\ pc' = "running"
    /\ RefreshMap(origin, {})
    /\ last' = Op("startup")
    /\ UNCHANGED <<storage, saveListener, momentos, inventory, origin, geoloc,
                   watchID, watches, nextWatch, saved>>

(* A collect button of a popup: button i of the cache added n-th. *)
Collect(n, i) ==
    /\ pc = "running"
    /\ LET r == transfer(caches[n], inventory, At(caches[n].coins, i), momentos)
       IN /\ caches' = [caches EXCEPT ![n] = r.a]
          /\ inventory' = r.b
          /\ momentos' = r.momentos
          /\ last' = IF r.moved THEN Op("run") ELSE last
          /\ saved' = IF r.moved THEN <<>> ELSE saved
    /\ UNCHANGED <<pc, storage, saveListener, origin, locHistory, geoloc,
                   watchID, watches, nextWatch, known_cells>>

(* A deposit button that takes the first coin of the inventory. *)
DepositFirst(n) ==
    /\ pc = "running"
    /\ LET r == transfer(inventory, caches[n], At(inventory.coins, 0), momentos)
       IN /\ inventory' = r.a
          /\ caches' = [caches EXCEPT ![n] = r.b]
          /\ momentos' = r.momentos
          /\ last' = IF r.moved THEN Op("run") ELSE last
          /\ saved' = IF r.moved THEN <<>> ELSE saved
    /\ UNCHANGED <<pc, storage, saveListener, origin, locHistory, geoloc,
                   watchID, watches, nextWatch, known_cells>>

(* The deposit button of a popup of the cache added n-th. *)
Deposit(n) ==
    /\ pc = "running"
    /\ LET r == transfer(inventory, caches[n],
                         At(inventory.coins, Len(inventory.coins) - 1), momentos)
       IN /\ inventory' = r.a
          /\ caches' = [caches EXCEPT ![n] = r.b]
          /\ momentos' = r.momentos
          /\ last' = IF r.moved THEN Op("run") ELSE last
          /\ saved' = IF r.moved THEN <<>> ELSE saved
    /\ UNCHANGED <<pc, storage, saveListener, origin, locHistory, geoloc,
                   watchID, watches, nextWatch, known_cells>>

(* A movement button that does not look at the geolocation flag. *)
MoveAlways(dir) ==
    /\ pc = "running"
    /\ TrailPoints(locHistory) < MaxTrail
    /\ origin' = latLng(origin.lat + dir.lat, origin.lng + dir.lng)
    /\ RefreshMap(origin', known_cells)
    /\ last' = Op("run")
    /\ saved' = <<>>
    /\ UNCHANGED <<pc, storage, saveListener, momentos, inventory, geoloc,
                   watchID, watches, nextWatch>>

(* A movement button. *)
Move(dir) ==
    /\ pc = "running"
    /\ IF geoloc
       THEN UNCHANGED <<origin, caches, locHistory, known_cells, last, saved>>
       ELSE /\ TrailPoints(locHistory) < MaxTrail
            /\ origin' = latLng(origin.lat + dir.lat, origin.lng + dir.lng)
            /\ RefreshMap(origin', known_cells)
            /\ last' = Op("run")
            /\ saved' = <<>>
    /\ UNCHANGED <<pc, storage, saveListener, momentos, inventory, geoloc,
                   watchID, watches, nextWatch>>

(* The geolocation button; supported: whether navigator.geolocation exists. *)
ToggleGeolocation(supported) ==
    /\ pc = "running"
    /\ IF ~geoloc
       THEN IF supported
            THEN /\ nextWatch <= MaxWatches
                 /\ geoloc' = TRUE
                 /\ watchID' = nextWatch
                 /\ watches' = watches \cup {nextWatch}
                 /\ nextWatch' = nextWatch + 1
                 /\ last' = Op("run")
                 /\ saved' = <<>>
            ELSE /\ geoloc' = FALSE
                 /\ UNCHANGED <<watchID, watches, nextWatch, last, saved>>
       ELSE /\ geoloc' = FALSE
            /\ watches' = watches \ {watchID}
            /\ last' = Op("run")
            /\ saved' = <<>>
            /\ UNCHANGED <<watchID, nextWatch>>
    /\ UNCHANGED <<pc, storage, saveListener, momentos, inventory, caches,
                   origin, locHistory, known_cells>>

(* The success callback of watch w, with the position it reports. *)
GeoUpdate(w, realPos) ==
    /\ pc = "running"
    /\ w \in watches
    /\ TrailPoints(locHistory) < MaxTrail
    /\ origin' = realPos
    /\ RefreshMap(origin', known_cells)
    /\ last' = Op("run")
    /\ saved' = <<>>
    /\ UNCHANGED <<pc, storage, saveListener, momentos, inventory, geoloc,
                   watchID, watches, nextWatch>>

(* An error callback that cancels its watch and leaves the flag alone. *)
GeoErrorCancelsWatch(w) ==
    /\ pc = "running"
    /\ w \in watches
    /\ watches' = watches \ {w}
    /\ last' = Op("run")
    /\ saved' = <<>>
    /\ UNCHANGED <<pc, storage, saveListener, momentos, inventory, caches,
                   origin, locHistory, geoloc, watchID, nextWatch, known_cells>>

(* The error callback of watch w. *)
GeoError(w) ==
    /\ pc = "running"
    /\ w \in watches
    /\ geoloc' = FALSE
    /\ last' = IF geoloc THEN Op("run") ELSE last
    /\ saved' = IF geoloc THEN <<>> ELSE saved
    /\ UNCHANGED <<pc, storage, saveListener, momentos, inventory, caches,
                   origin, locHistory, watchID, watches, nextWatch, known_cells>>

(* The trash button: clearData() with what the prompt returned. *)
ClearData(confirmation) ==
    /\ pc = "running"
    /\ IF Confirmed(confirmation)
       THEN /\ storage' = EmptyStore
            /\ saveListener' = ListenerAfterClear
            /\ pc' = "reloading"
            /\ last' = Op("clear")
            /\ saved' = <<>>
       ELSE UNCHANGED <<storage, saveListener, pc, last, saved>>
    /\ UNCHANGED <<momentos, inventory, caches, origin, locHistory, geoloc,
                   watchID, watches, nextWatch, known_cells>>

(* The page goes away (tab closed, reload): beforeunload, then a new page. *)
Unload ==
    /\ pc \in {"running", "reloading", "crashed"}
    /\ saveListener => TrailPoints(locHistory) < MaxTrail
    /\ storage' = IF saveListener THEN saveData(momentos, origin, locHistory)
                  ELSE storage
    /\ saved' = IF saveListener THEN <<Snapshot>> ELSE <<>>
    /\ last' = [Op("unload") EXCEPT !.reset = (pc = "reloading")]
    /\ pc' = "start"
    /\ saveListener' = TRUE
    /\ momentos' = <<>>
    /\ inventory' = NewInventory
    /\ caches' = <<>>
    /\ origin' = OAKES_CLASSROOM
    /\ locHistory' = <<>>
    /\ geoloc' = FALSE
    /\ watchID' = 0
    /\ watches' = {}
    /\ nextWatch' = 1
    /\ known_cells' = {}

(* The indices a popup's collect buttons can carry. *)
ButtonIndices == 0..(MaxButtons - 1)

Next ==
    \/ LoadData
    \/ StartupRefresh
    \/ \E n \in 1..Len(caches), i \in ButtonIndices : Collect(n, i)
    \/ \E n \in 1..Len(caches) : Deposit(n)
    \/ \E dir \in Directions : Move(dir)
    \/ \E supported \in BOOLEAN : ToggleGeolocation(supported)
    \/ \E w \in watches, p \in GeoPoints : GeoUpdate(w, p)
    \/ \E w \in watches : GeoError(w)
    \/ \E c \in Confirmations : ClearData(c)
    \/ Unload

Spec == Init /\ [][Next]_vars

-----------------------------------------------------------------------------
(* The world the claims quantify over: the cells whose luck is below the   *)
(* spawn threshold (all of them are keys of LuckTable), and their coins.   *)

SpawnCells ==
    {[i |-> e.i, j |-> e.j] :
       e \in {x \in LuckTable : CellKey(x.i, x.j) = x.key /\ Spawns(luck(x.key))}}

FreshCoins(c) == createCache(c.i, c.j, NumCoins(luck(CellKey(c.i, c.j)))).coins

Elements(seq) == {seq[n] : n \in DOMAIN seq}

AllCoins == UNION {Elements(FreshCoins(c)) : c \in SpawnCells}

(* A cell's current content: its memento if it has one, else its fresh coins. *)
Content(c) ==
    IF MapHas(momentos, CellKey(c.i, c.j))
    THEN CoinsOf(JSONparse(MapGet(momentos, CellKey(c.i, c.j))))
    ELSE FreshCoins(c)

Places(seq, t) == {n \in DOMAIN seq : seq[n] = t}

(* Where coin t is held: in the inventory, or in a cell's current content. *)
Holders(t) ==
    {<<"inventory", n>> : n \in Places(inventory.coins, t)}
    \cup UNION {{<<CellKey(c.i, c.j), n>> : n \in Places(Content(c), t)} :
                c \in SpawnCells}

(* Where coin t is held among the live objects: inventory, caches on the map. *)
LiveHolders(t) ==
    {<<0, n>> : n \in Places(inventory.coins, t)}
    \cup UNION {{<<k, n>> : n \in Places(caches[k].coins, t)} : k \in DOMAIN caches}

(* C1: once the page has loaded, every coin the world spawns is held in     *)
(* exactly one place (the inventory or the current content of one cell),    *)
(* the live objects hold no coin twice, and nothing but those coins is held *)
(* anywhere: no coin is duplicated, recreated, altered or lost.             *)
C1_Custody ==
    pc # "start" =>
      /\ \A t \in AllCoins : Cardinality(Holders(t)) = 1
      /\ \A t \in AllCoins : Cardinality(LiveHolders(t)) <= 1
      /\ Elements(inventory.coins) \subseteq AllCoins
      /\ \A c \in SpawnCells : Elements(Content(c)) \subseteq AllCoins
      /\ \A k \in DOMAIN caches : Elements(caches[k].coins) \subseteq AllCoins

(* C1 witness: coins of both cells have changed custody, across a reload.   *)
C1_Witness ==
    /\ pc = "running"
    /\ TrailPoints(locHistory) = 2
    /\ storage.data # Null
    /\ \E t \in Elements(inventory.coins) : t.cell = [i |-> 0, j |-> 0]
    /\ \E k \in DOMAIN caches :
         /\ caches[k].str = "0,0"
         /\ \E t \in Elements(caches[k].coins) : t.cell = [i |-> 0, j |-> 9]

(* A successful transfer of t from src to dst, giving src2, dst2 and table m2. *)
Moved(src, dst, src2, dst2, t, m2) ==
    /\ t \notin Elements(src2.coins)
    /\ src2.coins = SelectSeq(src.coins, LAMBDA x : x # t)
    /\ dst2.coins = dst.coins \o <<t>>
    /\ MapHas(m2, src.str) /\ MapGet(m2, src.str) = Text(CoinsText(src2.coins))
    /\ MapHas(m2, dst.str) /\ MapGet(m2, dst.str) = Text(CoinsText(dst2.coins))

(* C2: a transfer whose coin is in the source removes it from the source,   *)
(* appends it to the destination, keeps the order of all other coins, and   *)
(* leaves under both keys the serialization of the new collections.         *)
C2_TransferMoves ==
    [][\A n \in DOMAIN caches :
         /\ \A i \in ButtonIndices :
              (Collect(n, i) /\ At(caches[n].coins, i) # <<>>) =>
                 Moved(caches[n], inventory, caches'[n], inventory',
                       caches[n].coins[i + 1], momentos')
         /\ (Deposit(n) /\ inventory.coins # <<>>) =>
                 Moved(inventory, caches[n], inventory', caches'[n],
                       inventory.coins[Len(inventory.coins)], momentos')]_vars

(* C2 witness: coins were collected and one was deposited into another cell. *)
C2_Witness ==
    /\ pc = "running"
    /\ inventory.coins # <<>>
    /\ MapHas(momentos, "inventory")
    /\ \E k \in DOMAIN caches :
         /\ MapHas(momentos, caches[k].str)
         /\ \E t \in Elements(caches[k].coins) : t.cell # caches[k].cell

(* C3: a transfer whose coin is not in the source (a stale collect button,  *)
(* a deposit with an empty inventory) changes neither collection nor the    *)
(* table, and the page keeps running.                                       *)
C3_AbsentNoOp ==
    [][\A n \in DOMAIN caches :
         /\ \A i \in ButtonIndices :
              (Collect(n, i) /\ At(caches[n].coins, i) = <<>>) =>
                 UNCHANGED <<caches, inventory, momentos, pc>>
         /\ (Deposit(n) /\ inventory.coins = <<>>) =>
                 UNCHANGED <<caches, inventory, momentos, pc>>]_vars

(* C3 witness: the inventory was emptied by deposits and a cache has lost   *)
(* coins, so a deposit button and a collect button point at nothing.        *)
C3_Witness ==
    /\ pc = "running"
    /\ inventory.coins = <<>>
    /\ MapHas(momentos, "inventory")
    /\ \E k \in DOMAIN caches :
         /\ MapHas(momentos, caches[k].str)
         /\ \E i \in ButtonIndices : At(caches[k].coins, i) = <<>>

NearPlayer(i, j) == getCell(i, j) \in Elements(getCellsNearPoint(origin))

(* C4: with threshold 0.1 and luck("0,0") = 0.05 the fresh cache of (0,0)   *)
(* holds serials 0 and 1; and when a session that had moved serial 0 to the *)
(* inventory is saved and loaded, the new session shows cache (0,0) with    *)
(* serial 1 only and an inventory with serial 0 of (0,0) only.              *)
C4_EndToEnd ==
    /\ \A k \in DOMAIN caches :
         (caches[k].str = "0,0" /\ ~MapHas(momentos, "0,0")) =>
            caches[k].coins = <<Coin(0, 0, 0), Coin(0, 0, 1)>>
    /\ ( /\ last.op = "startup"
         /\ saved # <<>>
         /\ NearPlayer(0, 0) )
       => LET s == saved[1] IN
          ( /\ s.inventory = <<Coin(0, 0, 0)>>
            /\ MapHas(s.momentos, "0,0")
            /\ MapGet(s.momentos, "0,0") = Text(CoinsText(<<Coin(0, 0, 1)>>)) )
          => /\ inventory.coins = <<Coin(0, 0, 0)>>
             /\ Cardinality({k \in DOMAIN caches : caches[k].str = "0,0"}) = 1
             /\ \A k \in DOMAIN caches :
                  caches[k].str = "0,0" => caches[k].coins = <<Coin(0, 0, 1)>>

(* C4 witness: the new session of that scenario, right after its startup.   *)
C4_Witness ==
    /\ last.op = "startup"
    /\ saved # <<>>
    /\ saved[1].inventory = <<Coin(0, 0, 0)>>
    /\ inventory.coins = <<Coin(0, 0, 0)>>
    /\ \E k \in DOMAIN caches :
         caches[k].str = "0,0" /\ caches[k].coins = <<Coin(0, 0, 1)>>

(* The steps that display the nearby cells. *)
Refreshed ==
    \/ StartupRefresh
    \/ \E dir \in Directions : Move(dir) /\ ~geoloc
    \/ \E w \in watches, p \in GeoPoints : GeoUpdate(w, p)

(* C5: every refresh shows a cell that has a memento with exactly the coins *)
(* of the memento, whatever the generator would produce for the cell.       *)
C5_RestoredFromMemento ==
    [][Refreshed =>
         \A k \in DOMAIN caches' :
            MapHas(momentos', caches'[k].str) =>
               caches'[k].coins =
                  CoinsOf(JSONparse(MapGet(momentos', caches'[k].str)))]_vars

(* C5 witness: right after a refresh, an emptied cache is shown empty and a *)
(* cache is shown with more coins than its cell generates.                  *)
C5_Witness ==
    /\ last.op = "startup"
    /\ \E k \in DOMAIN caches :
         MapHas(momentos, caches[k].str) /\ caches[k].coins = <<>>
    /\ \E k \in DOMAIN caches :
         /\ MapHas(momentos, caches[k].str)
         /\ Len(caches[k].coins) > NumCoins(luck(caches[k].str))

-----------------------------------------------------------------------------
(* The stored sessions a page can find when it starts. *)

StoredTable ==
    <<<<"0,0", Text(CoinsText(<<Coin(0, 0, 1)>>))>>,
      <<"inventory", Text(CoinsText(<<Coin(0, 0, 0)>>))>>>>

DataInputs == {Null, EmptyText, Malformed, Text(<<>>), Text(StoredTable),
               Text(<<<<"0,9", Text(CoinsText(<<>>))>>>>)}
LocInputs == {Null, Malformed, Text(<<0, 20>>), Text(<<5, 3>>)}
HistInputs == {Null, Malformed, Text(<<<<latLng(0, 20)>>>>)}

LoadInit ==
    /\ FreshPage
    /\ storage \in [data : DataInputs, loc : LocInputs, hist : HistInputs]
    /\ saved = <<>>
    /\ last = Op("init")

LoadNext == LoadData \/ StartupRefresh \/ Unload

LoadSpec == LoadInit /\ [][LoadNext]_vars

Absent(item) == ~Truthy(item)

(* What loadData is to leave for a stored item: its value, or the default. *)
RestoredTable(item) == IF item.kind = "json" THEN SetAll(<<>>, item.value) ELSE <<>>
RestoredPosition(item) ==
    IF item.kind = "json" THEN latLng(item.value[1], item.value[2])
    ELSE OAKES_CLASSROOM
RestoredTrail(item) == IF item.kind = "json" THEN item.value ELSE <<>>

(* C6: after loadData each of the three pieces is restored when its key is  *)
(* present and takes its default when its key is absent, whatever the other *)
(* two keys hold.                                                           *)
C6_IndependentRestore ==
    (pc = "loaded" /\ \A k \in DOMAIN storage : storage[k] # Malformed) =>
       /\ momentos = RestoredTable(storage.data)
       /\ origin = RestoredPosition(storage.loc)
       /\ locHistory = RestoredTrail(storage.hist)

(* C7: with a malformed item in the store, startup completes, the malformed *)
(* piece takes its default and the other two are restored.                  *)
C7_MalformedNotFatal ==
    (\E k \in DOMAIN storage : storage[k] = Malformed) =>
       /\ pc # "crashed"
       /\ pc = "loaded" =>
            /\ momentos = RestoredTable(storage.data)
            /\ origin = RestoredPosition(storage.loc)
            /\ locHistory = RestoredTrail(storage.hist)

C9_ResetConfirmation ==
    [][\A c \in Confirmations :
         ClearData(c) =>
            IF c = <<"DELETE">> THEN storage' = EmptyStore
            ELSE UNCHANGED <<storage, momentos, inventory, origin, locHistory>>]_vars

(* C9 witness: a session that was loaded from the store (its trail holds the *)
(* saved point and the startup's) has just been reset.                      *)
C9_Witness ==
    /\ pc = "reloading"
    /\ storage = EmptyStore
    /\ locHistory = <<<<OAKES_CLASSROOM, OAKES_CLASSROOM>>>>
    /\ inventory.coins # <<>>

(* C10: the page that starts after a confirmed reset finds an empty store   *)
(* and begins with an empty table, an empty inventory, no trail and the     *)
(* default position.                                                        *)
C10_ResetStartsFresh ==
    last.reset =>
       /\ storage = EmptyStore
       /\ pc \in {"start", "loaded"}
       /\ pc = "loaded" =>
            /\ momentos = <<>>
            /\ inventory.coins = <<>>
            /\ locHistory = <<>>
            /\ origin = OAKES_CLASSROOM

(* C10 witness: loadData has run on the page that started after a reset.    *)
C10_Witness == last.reset /\ pc = "loaded" /\ last.op = "load"

-----------------------------------------------------------------------------
KeySet(m) == {m[n][1] : n \in DOMAIN m}

(* C11: no step of a running page removes a key of the table (an entry is   *)
(* only overwritten), and the table a page loads after a save has every key *)
(* the saved table had; only the page that goes away takes its table with   *)
(* it, and only after a confirmed reset is nothing there to load.           *)
C11_TableGrows ==
    [][/\ pc' # "start" => KeySet(momentos) \subseteq KeySet(momentos')
       /\ (pc' = "loaded" /\ saved' # <<>>) =>
             KeySet(saved'[1].momentos) \subseteq KeySet(momentos')]_vars

(* C11 witness: a reloaded session still has the entry of an emptied cache. *)
C11_Witness ==
    /\ pc = "loaded"
    /\ saved # <<>>
    /\ \E n \in DOMAIN momentos :
         /\ momentos[n][1] # "inventory"
         /\ momentos[n][2] = toMomento(createCache(0, 0, 0))

-----------------------------------------------------------------------------
(* The memento of a cache, on its own: a cache with any coins is saved and  *)
(* a new cache of any cell is restored from the memento.                    *)

MaxCoins == 2

MomentoCells == {[i |-> 0, j |-> 0], [i |-> 0, j |-> 9], [i |-> -3, j |-> 2]}

MomentoCoins == {Coin(0, 0, 0), Coin(0, 9, 1), Coin(-3, 2, 0)}

RECURSIVE CoinSeqs(_)
CoinSeqs(n) ==
    IF n = 0 THEN {<<>>}
    ELSE CoinSeqs(n - 1)
         \cup {Append(q, t) : q \in {x \in CoinSeqs(n - 1) : Len(x) = n - 1},
                              t \in MomentoCoins}

MomentoInit ==
    /\ pc = "toMomento"
    /\ \E c \in MomentoCells, q \in CoinSeqs(MaxCoins) :
         caches = <<[createCache(c.i, c.j, 0) EXCEPT !.coins = q]>>
    /\ storage = EmptyStore
    /\ saveListener = TRUE
    /\ momentos = <<>>
    /\ inventory = NewInventory
    /\ origin = OAKES_CLASSROOM
    /\ locHistory = <<>>
    /\ geoloc = FALSE
    /\ watchID = 0
    /\ watches = {}
    /\ nextWatch = 1
    /\ known_cells = {}
    /\ saved = <<>>
    /\ last = Op("init")

(* momentos.set(a.toString(), a.toMomento()) *)
ToMomento ==
    /\ pc = "toMomento"
    /\ momentos' = MapSet(momentos, caches[1].str, toMomento(caches[1]))
    /\ pc' = "fromMomento"
    /\ UNCHANGED <<storage, saveListener, inventory, caches, origin, locHistory,
                   geoloc, watchID, watches, nextWatch, known_cells, saved, last>>

(* createCache(i, j, 0) and cache.fromMomento(momento) *)
FromMomento(cell) ==
    /\ pc = "fromMomento"
    /\ caches' = Append(caches, fromMomento(createCache(cell.i, cell.j, 0),
                                            MapGet(momentos, caches[1].str)))
    /\ pc' = "done"
    /\ UNCHANGED <<storage, saveListener, momentos, inventory, origin, locHistory,
                   geoloc, watchID, watches, nextWatch, known_cells, saved, last>>

MomentoNext == ToMomento \/ \E cell \in MomentoCells : FromMomento(cell)

MomentoSpec == MomentoInit /\ [][MomentoNext]_vars

(* C12: the cache restored from a memento holds the coins that were saved,  *)
(* each with its cell and serial and in the same order, for 0..MaxCoins     *)
(* coins; the memento is the text of the coins alone, and the restored      *)
(* cache keeps its own cell and key.                                        *)
C12_MomentoRoundTrip ==
    pc = "done" =>
       /\ caches[2].coins = caches[1].coins
       /\ momentos = <<<<caches[1].str, Text(CoinsText(caches[1].coins))>>>>
       /\ caches[2].cell \in MomentoCells
       /\ caches[2].str = CellKey(caches[2].cell.i, caches[2].cell.j)

(* C12 witness: two coins of other cells, one with a negative index, were   *)
(* saved by one cache and restored into a cache of another cell.            *)
C12_Witness ==
    /\ pc = "done"
    /\ caches[1].cell # caches[2].cell
    /\ caches[2].coins = <<Coin(-3, 2, 0), Coin(0, 9, 1)>>
    /\ caches[1].cell = [i |-> 0, j |-> 0]

-----------------------------------------------------------------------------
(* The geolocation button pressed while the mode is on. *)
ToggledOff == geoloc /\ \E supported \in BOOLEAN : ToggleGeolocation(supported)

(* C13: right after a toggle that turns geolocation off no position watch   *)
(* is outstanding, so no position update can follow.                        *)
C13_OffCancelsAll ==
    [][ToggledOff => watches' = {}]_vars

(* C14: the error callback of a watch leaves the flag false, a toggle that  *)
(* finds geolocation unsupported leaves the flag false, and with the flag   *)
(* false a movement button moves the player by its direction.               *)
C14_FailureTurnsOff ==
    [][/\ \A w \in watches : GeoError(w) => ~geoloc'
       /\ (~geoloc /\ ToggleGeolocation(FALSE)) => ~geoloc'
       /\ \A dir \in Directions :
            (~geoloc /\ Move(dir)) =>
               origin' = latLng(origin.lat + dir.lat, origin.lng + dir.lng)]_vars

(* C14 witness: the watch that was turned on has failed, so the flag is off *)
(* while that watch is outstanding, and a movement button has moved the     *)
(* player since.                                                            *)
C14_Witness ==
    /\ pc = "running"
    /\ ~geoloc
    /\ watchID \in watches
    /\ origin \notin GeoPoints \cup {OAKES_CLASSROOM}

-----------------------------------------------------------------------------
(* The cells around the player and the cells of the caches on the map. *)
NearCells == Elements(getCellsNearPoint(origin))

CacheCells == {caches[k].cell : k \in DOMAIN caches}

(* C15: no two caches on the map are of the same cell; after a refresh the  *)
(* map holds caches of nearby cells only (the earlier ones are gone), one   *)
(* for each nearby cell that spawns.                                        *)
C15_OneCachePerCell ==
    /\ \A k1, k2 \in DOMAIN caches :
         caches[k1].cell = caches[k2].cell => k1 = k2
    /\ pc = "running" =>
         /\ CacheCells \subseteq NearCells
         /\ Len(caches) = Cardinality(SpawnCells \cap NearCells)

(* C15 witness: after a second refresh the map shows one cache restored     *)
(* from its memento and one regenerated.                                    *)
C15_Witness ==
    /\ pc = "running"
    /\ TrailPoints(locHistory) = 2
    /\ Len(caches) = 2
    /\ \E k \in DOMAIN caches : MapHas(momentos, caches[k].str)
    /\ \E k \in DOMAIN caches : ~MapHas(momentos, caches[k].str)

(* C16: on a running page a nearby cell has a cache exactly if the luck of  *)
(* its key is strictly below the spawn threshold, whatever the table holds  *)
(* and wherever the player is and has been.                                 *)
C16_SpawnIffBelowThreshold ==
    pc = "running" =>
       \A cell \in NearCells :
          (cell \in CacheCells) <=>
             (luck(CellKey(cell.i, cell.j)) < CACHE_SPAWN_PROBABILITY)

(* C16 witness: the player has moved; an emptied cache is still on the map  *)
(* and the nearby cell whose luck equals the threshold has none.            *)
C16_Witness ==
    /\ pc = "running"
    /\ origin # OAKES_CLASSROOM
    /\ [i |-> 1, j |-> 1] \in NearCells
    /\ [i |-> 1, j |-> 1] \notin CacheCells
    /\ \E k \in DOMAIN caches : caches[k].coins = <<>>

-----------------------------------------------------------------------------
(* The caches on the map whose cell has no entry in the table. *)
FreshShown == {k \in DOMAIN caches : ~MapHas(momentos, caches[k].str)}

(* C17, as stated: the number of coins of a fresh cache is                  *)
(* floor(draw * 30) + 1 for a second draw of the cell, made under another   *)
(* key than the draw that decided the spawn.                                *)
C17_SecondDraw ==
    \A k \in FreshShown :
       /\ SumKey(caches[k].cell) # caches[k].str
       /\ Len(caches[k].coins) = NumCoins(luck(SumKey(caches[k].cell)))

(* C17, amended: the number of coins of a fresh cache is                    *)
(* floor(chance * 30) + 1 for the very draw chance = luck("i,j") that       *)
(* decided the spawn, so it is between 1 and 3.                             *)
C17_SameDraw ==
    \A k \in FreshShown :
       LET chance == luck(CellKey(caches[k].cell.i, caches[k].cell.j))
       IN /\ chance < CACHE_SPAWN_PROBABILITY
          /\ Len(caches[k].coins) = ((chance * 30) \div 1000) + 1
          /\ Len(caches[k].coins) \in 1..3

(* C17 witness: two fresh caches on the map, of cells with different luck.  *)
C17_Witness ==
    /\ pc = "running"
    /\ momentos = <<>>
    /\ \E k \in FreshShown : Len(caches[k].coins) = 2
    /\ \E k \in FreshShown : Len(caches[k].coins) = 1

-----------------------------------------------------------------------------
(* IEEE 754 double arithmetic, as far as getCellFromPoint needs it.  A      *)
(* double is [neg, m, e] and has the value (-1)^neg * m * 2^e, where m is   *)
(* a whole number below 2^53 (at least 2^52 unless the double is zero),     *)
(* kept as four limbs in base 2^15, least significant limb first.           *)

Limb == 2 ^ 15

Zero == <<0, 0, 0, 0>>

(* a * k + c *)
RECURSIVE MulAdd(_, _, _)
MulAdd(a, k, c) ==
    IF a = <<>> THEN <<>>
    ELSE LET t == Head(a) * k + c
         IN <<t % Limb>> \o MulAdd(Tail(a), k, t \div Limb)

(* a - b - borrow, for a >= b + borrow *)
RECURSIVE Minus(_, _, _)
Minus(a, b, borrow) ==
    IF a = <<>> THEN <<>>
    ELSE LET t == Head(a) - Head(b) - borrow
         IN <<IF t < 0 THEN t + Limb ELSE t>>
            \o Minus(Tail(a), Tail(b), IF t < 0 THEN 1 ELSE 0)

RECURSIVE Less(_, _)
Less(a, b) ==
    IF a = <<>> THEN FALSE
    ELSE LET n == Len(a)
         IN IF a[n] # b[n] THEN a[n] < b[n]
            ELSE Less(SubSeq(a, 1, n - 1), SubSeq(b, 1, n - 1))

(* The number with the digits ds (most significant first), after acc. *)
RECURSIVE FromDigits(_, _, _)
FromDigits(ds, radix, acc) ==
    IF ds = <<>> THEN acc
    ELSE FromDigits(Tail(ds), radix, MulAdd(acc, radix, Head(ds)))

(* Bit p of a (bit 0 is the least significant), and the n low bits of a,    *)
(* most significant first.                                                  *)
Bit(a, p) == (a[(p \div 15) + 1] \div (2 ^ (p % 15))) % 2

BitsOf(a, n) == [k \in 1..n |-> Bit(a, n - k)]

BitLen(a) ==
    CHOOSE n \in 0..60 :
       /\ n = 0 \/ Bit(a, n - 1) = 1
       /\ \A p \in n..59 : Bit(a, p) = 0

(* a \div 2^t, for t below 15 *)
ShiftRight(a, t) ==
    [j \in 1..4 |->
       (a[j] \div (2 ^ t))
       + (IF j < 4 THEN (a[j + 1] % (2 ^ t)) * (2 ^ (15 - t)) ELSE 0)]

TwoTo52 == <<0, 0, 0, 2 ^ 7>>

(* m * 2^e with m at most 2^53: the double of that value (m = 2^53 is 2^52  *)
(* with the next exponent).                                                 *)
Renormal(neg, m, e) ==
    IF Bit(m, 53) = 1 THEN [neg |-> neg, m |-> TwoTo52, e |-> e + 1]
    ELSE [neg |-> neg, m |-> m, e |-> e]

(* The double nearest to a * 2^e (ties to even), for a = 0 or                *)
(* 2^52 <= a < 2^60.                                                        *)
RoundTo53(neg, a, e) ==
    IF a = Zero THEN [neg |-> neg, m |-> Zero, e |-> 0]
    ELSE LET t == BitLen(a) - 53
             m0 == ShiftRight(a, t)
             low == a[1] % (2 ^ t)
             up == /\ t > 0
                   /\ \/ 2 * low > 2 ^ t
                      \/ 2 * low = 2 ^ t /\ Bit(m0, 0) = 1
         IN Renormal(neg, IF up THEN MulAdd(m0, 1, 1) ELSE m0, e + t)

(* n * d in double arithmetic, n a whole number of magnitude below 2^7. *)
Times(n, d) ==
    RoundTo53((n < 0) # d.neg, MulAdd(d.m, IF n < 0 THEN -n ELSE n, 0), d.e)

RECURSIVE IntOf(_)
IntOf(bits) ==
    IF bits = <<>> THEN 0
    ELSE 2 * IntOf(SubSeq(bits, 1, Len(bits) - 1)) + bits[Len(bits)]

(* Long division by d of the number with the base-32 digits given (most     *)
(* significant first), continuing from quotient q and remainder r < d.      *)
RECURSIVE DivDigits(_, _, _, _)
DivDigits(digits, d, q, r) ==
    IF digits = <<>> THEN [q |-> q, r |-> r]
    ELSE LET r2 == MulAdd(r, 32, Head(digits))
             c == CHOOSE c \in 0..31 :
                     /\ ~Less(r2, MulAdd(d, c, 0))
                     /\ Less(r2, MulAdd(d, c + 1, 0))
         IN DivDigits(Tail(digits), d, MulAdd(q, 32, c),
                      Minus(r2, MulAdd(d, c, 0), 0))

(* The 22 base-32 digits of m * 2^shift, for m below 2^53 and shift <= 57. *)
Base32(m, shift) ==
    LET bits == [k \in 1..(57 - shift) |-> 0] \o BitsOf(m, 53)
                \o [k \in 1..shift |-> 0]
    IN [i \in 1..22 |-> IntOf(SubSeq(bits, 5 * i - 4, 5 * i))]

(* x / w in double arithmetic (ties to even), w not zero. *)
Divide(x, w) ==
    IF x.m = Zero THEN [neg |-> x.neg # w.neg, m |-> Zero, e |-> 0]
    ELSE LET shift == IF Less(x.m, w.m) THEN 53 ELSE 52
             qr == DivDigits(Base32(x.m, shift), w.m, Zero, Zero)
             twice == MulAdd(qr.r, 2, 0)
             up == \/ Less(w.m, twice)
                   \/ twice = w.m /\ Bit(qr.q, 0) = 1
         IN Renormal(x.neg # w.neg, IF up THEN MulAdd(qr.q, 1, 1) ELSE qr.q,
                     x.e - w.e - shift)

(* Math.floor(d), for a double d of magnitude below 2^31. *)
MathFloor(d) ==
    LET s == IF -d.e > 53 THEN 53 ELSE -d.e
        bits == BitsOf(d.m, 53)
        whole == IntOf(SubSeq(bits, 1, 53 - s))
        frac == \E i \in (54 - s)..53 : bits[i] = 1
    IN IF ~d.neg THEN whole
       ELSE IF frac THEN -whole - 1 ELSE -whole

(* 1e-4 as a double: 0x1.a36e2eb1c432dp-14 = 0x1a36e2eb1c432d * 2^-66 *)
TileWidth ==
    [neg |-> FALSE,
     m |-> FromDigits(<<1, 10, 3, 6, 14, 2, 14, 11, 1, 12, 4, 3, 2, 13>>, 16, Zero),
     e |-> -66]

(* The coordinate n half tiles from zero, as the program computes it:       *)
(* n * (TILE_DEGREES / 2); for n = 2k this is the double k * TILE_DEGREES.  *)
Coordinate(n) == Times(n, [TileWidth EXCEPT !.e = TileWidth.e - 1])

(* Math.floor(x / this.tile_width) *)
CellIndex(x) == MathFloor(Divide(x, TileWidth))

-----------------------------------------------------------------------------
(* getCellFromPoint on its own, in double arithmetic.  The point is given   *)
(* by whole numbers of half tiles: origin = latLng(n, m) stands for the     *)
(* point (Coordinate(n), Coordinate(m)).                                    *)

MaxHalfTiles == 100

LngInputs == {-1, 0, 13}

CellInit ==
    /\ pc = "point"
    /\ origin \in {latLng(n, m) : n \in (-MaxHalfTiles)..MaxHalfTiles,
                                  m \in LngInputs}
    /\ storage = EmptyStore
    /\ saveListener = TRUE
    /\ momentos = <<>>
    /\ inventory = NewInventory
    /\ caches = <<>>
    /\ locHistory = <<>>
    /\ geoloc = FALSE
    /\ watchID = 0
    /\ watches = {}
    /\ nextWatch = 1
    /\ known_cells = {}
    /\ saved = <<>>
    /\ last = Op("init")

(* board.getCellFromPoint(point): the cell it returns is the one getCell    *)
(* stores in known_cells.                                                   *)
GetCellFromPoint ==
    /\ pc = "point"
    /\ LET i == CellIndex(Coordinate(origin.lat))
           j == CellIndex(Coordinate(origin.lng))
       IN known_cells' = {CellKey(getCell(i, j).i, getCell(i, j).j)}
    /\ pc' = "cell"
    /\ UNCHANGED <<storage, saveListener, momentos, inventory, caches, origin,
                   locHistory, geoloc, watchID, watches, nextWatch, saved, last>>

CellNext == GetCellFromPoint

CellSpec == CellInit /\ [][CellNext]_vars

(* C19: the cell of a point is the floor of its coordinates in tile widths: *)
(* a point at k tile widths is in cell k, a point between k and k + 1 tile  *)
(* widths is in cell k, also for negative k (half a tile below zero is in   *)
(* cell -1).  A tile is two half tiles.                                     *)
C19_FloorDivision ==
    pc = "cell" =>
       known_cells = {CellKey(origin.lat \div 2, origin.lng \div 2)}

-----------------------------------------------------------------------------
(* getCellsNearPoint on its own, for points on the grid of half tiles. *)

MaxNear == 6

NearInit ==
    /\ pc = "point"
    /\ origin \in {latLng(n, m) : n, m \in (-MaxNear)..MaxNear}
    /\ storage = EmptyStore
    /\ saveListener = TRUE
    /\ momentos = <<>>
    /\ inventory = NewInventory
    /\ caches = <<>>
    /\ locHistory = <<>>
    /\ geoloc = FALSE
    /\ watchID = 0
    /\ watches = {}
    /\ nextWatch = 1
    /\ known_cells = {}
    /\ saved = <<>>
    /\ last = Op("init")

(* board.getCellsNearPoint(point), on a new board. *)
GetCellsNearPoint ==
    /\ pc = "point"
    /\ known_cells' = KnownAfter(known_cells, origin)
    /\ pc' = "near"
    /\ UNCHANGED <<storage, saveListener, momentos, inventory, caches, origin,
                   locHistory, geoloc, watchID, watches, nextWatch, saved, last>>

NearNext == GetCellsNearPoint

NearSpec == NearInit /\ [][NearNext]_vars

(* C20: the cells near a point are (2r)^2 pairwise distinct cells, exactly  *)
(* those at offsets -r..r-1 on both axes from the cell of the point, in     *)
(* row-major ascending order; the cell of the point is among them and no    *)
(* cell at offset +r is; these are the cells the board gets to know.        *)
C20_CellsNear ==
    pc = "near" =>
       LET cells == getCellsNearPoint(origin)
           o == getCellFromPoint(origin)
           r == NEIGHBORHOOD_SIZE
       IN /\ Len(cells) = (2 * r) * (2 * r)
          /\ Cardinality(Elements(cells)) = (2 * r) * (2 * r)
          /\ Elements(cells) =
                {[i |-> o.i + di, j |-> o.j + dj] : di, dj \in (-r)..(r - 1)}
          /\ \A n \in 1..(Len(cells) - 1) :
                \/ cells[n].i < cells[n + 1].i
                \/ cells[n].i = cells[n + 1].i /\ cells[n].j < cells[n + 1].j
          /\ cells[1] = [i |-> o.i - r, j |-> o.j - r]
          /\ o \in Elements(cells)
          /\ \A c \in Elements(cells) : c.i # o.i + r /\ c.j # o.j + r
          /\ known_cells = {CellKey(c.i, c.j) : c \in Elements(cells)}

(* C20 witness: the neighbourhood of a point with negative coordinates. *)
C20_Witness ==
    /\ pc = "near"
    /\ origin = latLng(-3, -6)
    /\ Cardinality(known_cells) = 4 * NEIGHBORHOOD_SIZE * NEIGHBORHOOD_SIZE
    /\ "-10,-11" \in known_cells

-----------------------------------------------------------------------------
(* updateLocationHistory on its own: a trail that ends at (0, 0) or is     *)
(* empty, and a new position within MaxStep half tiles of it.              *)

MaxStep == 5

TrailInputs == {<<>>, <<<<latLng(0, 0)>>>>, <<<<latLng(9, 9), latLng(0, 0)>>>>,
                <<<<latLng(9, 9)>>, <<latLng(0, 0)>>>>}

TrailInit ==
    /\ pc = "position"
    /\ locHistory \in TrailInputs
    /\ origin \in {latLng(n, m) : n, m \in (-MaxStep)..MaxStep}
    /\ storage = EmptyStore
    /\ saveListener = TRUE
    /\ momentos = <<>>
    /\ inventory = NewInventory
    /\ caches = <<>>
    /\ geoloc = FALSE
    /\ watchID = 0
    /\ watches = {}
    /\ nextWatch = 1
    /\ known_cells = {}
    /\ saved = <<>>
    /\ last = Op("init")

(* updateLocationHistory(), with the player at origin. *)
UpdateLocationHistory ==
    /\ pc = "position"
    /\ locHistory' = updateLocationHistory(locHistory, origin)
    /\ pc' = "recorded"
    /\ UNCHANGED <<storage, saveListener, momentos, inventory, caches, origin,
                   geoloc, watchID, watches, nextWatch, known_cells, saved, last>>

TrailNext == UpdateLocationHistory

TrailSpec == TrailInit /\ [][TrailNext]_vars

(* The metres between two positions exceed the threshold: a position unit  *)
(* is 5 m, and the comparison is of the squares.                           *)
Exceeds(a, b) ==
    LET dlat == a.lat - b.lat
        dlng == a.lng - b.lng
    IN 25 * (dlat * dlat + dlng * dlng)
         > HISTORY_UPDATE_DISTANCE * HISTORY_UPDATE_DISTANCE

LastRecorded(hist) == hist[Len(hist)][Len(hist[Len(hist)])]

(* C21: with a trail that is not empty, recording a position starts a new  *)
(* polyline (holding that position alone) exactly when its distance from   *)
(* the last recorded position exceeds the threshold of 20; at a distance   *)
(* of 20 or less the position is appended to the current polyline.         *)
C21_NewLineIffExceeds ==
    [][(UpdateLocationHistory /\ locHistory # <<>>) =>
         IF Exceeds(origin, LastRecorded(locHistory))
         THEN locHistory' = Append(locHistory, <<origin>>)
         ELSE locHistory' =
                [locHistory EXCEPT ![Len(locHistory)] = Append(@, origin)]]_vars

-----------------------------------------------------------------------------
(* The board with its Cell objects.  BoardSpec keeps the whole Map in       *)
(* known_cells, as its entries <<key, cell>> in insertion order; a cell is  *)
(* the object's fields i and j and its reference ref, the ordinal of the    *)
(* getCell call that allocated it.  A board b is the Map and the number of  *)
(* getCell calls made on it so far.  saved is the log of the calls made     *)
(* from outside: the cells asked for and the cells returned.                *)

MaxCalls == 3

(* A getCell that stores a new object on every call. *)
boardGetCellAlwaysSet(b, i, j) ==
    LET key == CellKey(i, j)
        m2 == MapSet(b.known_cells, key, [i |-> i, j |-> j, ref |-> b.calls + 1])
    IN [known_cells |-> m2, calls |-> b.calls + 1, cell |-> MapGet(m2, key)]

(* board.getCell(i, j): the board after the call and the cell returned. *)
boardGetCell(b, i, j) ==
    LET key == CellKey(i, j)
        m2 == IF ~MapHas(b.known_cells, key)
              THEN MapSet(b.known_cells, key,
                          [i |-> i, j |-> j, ref |-> b.calls + 1])
              ELSE b.known_cells
    IN [known_cells |-> m2, calls |-> b.calls + 1, cell |-> MapGet(m2, key)]

(* board.getCellFromPoint(point) *)
boardGetCellFromPoint(b, point) ==
    boardGetCell(b, point.lat \div TILE_DEGREES, point.lng \div TILE_DEGREES)

(* The passes lo..hi of the two loops of getCellsNearPoint, pass n being    *)
(* i = n \div 2r - r, j = n % 2r - r.  The passes run in order; the range   *)
(* is halved and the board after the first half is bound as a value, which  *)
(* keeps the evaluation shallow.                                            *)
RECURSIVE Passes(_, _, _, _)
Passes(b, o, lo, hi) ==
    LET r == NEIGHBORHOOD_SIZE IN
    IF lo = hi
    THEN LET g == boardGetCell(b, (lo \div (2 * r)) - r + o.i,
                                  (lo % (2 * r)) - r + o.j)
         IN [known_cells |-> g.known_cells, calls |-> g.calls,
             cells |-> <<g.cell>>]
    ELSE LET mid == (lo + hi) \div 2
         IN CHOOSE both \in
              {[Passes([known_cells |-> left.known_cells, calls |-> left.calls],
                       o, mid + 1, hi) EXCEPT !.cells = left.cells \o @] :
                 left \in {Passes(b, o, lo, mid)}} : TRUE

(* board.getCellsNearPoint(point) *)
boardGetCellsNearPoint(b, point) ==
    LET g == boardGetCellFromPoint(b, point)
        r == NEIGHBORHOOD_SIZE
    IN Passes([known_cells |-> g.known_cells, calls |-> g.calls], g.cell,
              0, 4 * r * r - 1)

(* The (i, j) and the points the calls are made with. *)
BoardCells == {[i |-> 0, j |-> 0], [i |-> 8, j |-> 0]}
BoardPoints == {latLng(1, 0), latLng(-1, 15)}

(* The getCell calls made so far: one per getCell and getCellFromPoint,     *)
(* one and (2r)^2 per getCellsNearPoint.                                    *)
RECURSIVE CallsOf(_)
CallsOf(log) ==
    IF log = <<>> THEN 0
    ELSE (IF Head(log).op = "getCellsNearPoint" THEN 1 + Len(Head(log).cells)
          ELSE 1) + CallsOf(Tail(log))

Board == [known_cells |-> known_cells, calls |-> CallsOf(saved)]

BoardInit ==
    /\ pc = "board"
    /\ known_cells = <<>>
    /\ saved = <<>>
    /\ storage = EmptyStore
    /\ saveListener = TRUE
    /\ momentos = <<>>
    /\ inventory = NewInventory
    /\ caches = <<>>
    /\ origin = OAKES_CLASSROOM
    /\ locHistory = <<>>
    /\ geoloc = FALSE
    /\ watchID = 0
    /\ watches = {}
    /\ nextWatch = 1
    /\ last = Op("init")

BoardFrame ==
    /\ Len(saved) < MaxCalls
    /\ pc = "board"
    /\ UNCHANGED <<pc, storage, saveListener, momentos, inventory, caches, origin,
                   locHistory, geoloc, watchID, watches, nextWatch, last>>

GetCell(c) ==
    /\ BoardFrame
    /\ LET g == boardGetCell(Board, c.i, c.j)
       IN /\ known_cells' = g.known_cells
          /\ saved' = Append(saved, [op |-> "getCell", asked |-> <<c>>,
                                     cells |-> <<g.cell>>])

GetCellOfPoint(point) ==
    /\ BoardFrame
    /\ LET g == boardGetCellFromPoint(Board, point)
       IN /\ known_cells' = g.known_cells
          /\ saved' = Append(saved,
                [op |-> "getCellFromPoint",
                 asked |-> <<[i |-> point.lat \div TILE_DEGREES,
                              j |-> point.lng \div TILE_DEGREES]>>,
                 cells |-> <<g.cell>>])

GetCellsNear(point) ==
    /\ BoardFrame
    /\ LET g == boardGetCellsNearPoint(Board, point)
       IN /\ known_cells' = g.known_cells
          /\ saved' = Append(saved, [op |-> "getCellsNearPoint",
                                     asked |-> getCellsNearPoint(point),
                                     cells |-> g.cells])

BoardNext ==
    \/ \E c \in BoardCells : GetCell(c)
    \/ \E point \in BoardPoints : GetCellOfPoint(point)
    \/ \E point \in BoardPoints : GetCellsNear(point)

BoardSpec == BoardInit /\ [][BoardNext]_vars

(* Every cell a call has returned, with the (i, j) it was asked for. *)
Returned ==
    UNION {{[asked |-> saved[n].asked[k], cell |-> saved[n].cells[k]] :
              k \in DOMAIN saved[n].cells} : n \in DOMAIN saved}

(* C22: every cell a call returned has the (i, j) asked for and is the     *)
(* object the table holds under the key of (i, j), so all calls for the     *)
(* same (i, j) returned the identical object, whichever of getCell,         *)
(* getCellFromPoint and getCellsNearPoint made them; the table holds no two *)
(* entries for the same key or the same (i, j), and no entry was dropped.   *)
C22_CanonicalCells ==
    /\ \A x \in Returned :
         /\ x.cell.i = x.asked.i /\ x.cell.j = x.asked.j
         /\ MapHas(known_cells, CellKey(x.asked.i, x.asked.j))
         /\ MapGet(known_cells, CellKey(x.asked.i, x.asked.j)) = x.cell
    /\ Cardinality({<<x.asked, x.cell.ref>> : x \in Returned})
         = Cardinality({x.asked : x \in Returned})
    /\ Cardinality({known_cells[n][1] : n \in DOMAIN known_cells})
         = Len(known_cells)
    /\ Cardinality({<<known_cells[n][2].i, known_cells[n][2].j>> :
                      n \in DOMAIN known_cells}) = Len(known_cells)
    /\ Cardinality({known_cells[n][2].ref : n \in DOMAIN known_cells})
         = Len(known_cells)
    /\ Len(known_cells) = Cardinality({x.asked : x \in Returned})

(* C22 witness: cell (0, 0) was returned by getCell, by getCellFromPoint    *)
(* and by getCellsNearPoint.                                                *)
C22_Witness ==
    /\ Len(saved) = MaxCalls
    /\ \A op \in {"getCell", "getCellFromPoint", "getCellsNearPoint"} :
         \E n \in DOMAIN saved :
            /\ saved[n].op = op
            /\ \E k \in DOMAIN saved[n].asked : saved[n].asked[k] = [i |-> 0, j |-> 0]

-----------------------------------------------------------------------------
(* The body of showNearbyCaches for one cell, with the luck of the cell's   *)
(* key as an input: any value of [0, 1), in thousandths.  GenSpec keeps     *)
(* the draw in saved.                                                       *)

Chances == 0..999

GenCells == {[i |-> 0, j |-> 0], [i |-> -3, j |-> 2]}

(* The tables: empty, and with a memento of each cell. *)
GenTables ==
    {<<>>, <<<<"0,0", Text(CoinsText(<<Coin(0, 0, 1)>>))>>,
             <<"-3,2", Text(CoinsText(<<>>))>>>>}

(* What the callback of cells.forEach hands to addCache for a cell whose    *)
(* luck is chance: <<>> when it adds no cache.                              *)
forEachCell(cell, chance, m) ==
    LET key == CellKey(cell.i, cell.j)
    IN IF Spawns(chance)
       THEN IF ~MapHas(m, key)
            THEN <<createCache(cell.i, cell.j, NumCoins(chance))>>
            ELSE <<fromMomento(createCache(cell.i, cell.j, 0), MapGet(m, key))>>
       ELSE <<>>

GenInit ==
    /\ pc = "cell"
    /\ \E chance \in Chances : saved = <<chance>>
    /\ \E cell \in GenCells :
         origin = latLng(cell.i * TILE_DEGREES, cell.j * TILE_DEGREES)
    /\ momentos \in GenTables
    /\ storage = EmptyStore
    /\ saveListener = TRUE
    /\ inventory = NewInventory
    /\ caches = <<>>
    /\ locHistory = <<>>
    /\ geoloc = FALSE
    /\ watchID = 0
    /\ watches = {}
    /\ nextWatch = 1
    /\ known_cells = {}
    /\ last = Op("init")

(* The callback, for the cell of the player's position. *)
ShowCell ==
    /\ pc = "cell"
    /\ caches' = forEachCell(getCellFromPoint(origin), saved[1], momentos)
    /\ pc' = "shown"
    /\ UNCHANGED <<storage, saveListener, momentos, inventory, origin, locHistory,
                   geoloc, watchID, watches, nextWatch, known_cells, saved, last>>

GenNext == ShowCell

GenSpec == GenInit /\ [][GenNext]_vars

(* C23: a fresh cache (one made for a cell that has no memento) holds at    *)
(* least one coin and at most three, and its coins are numbered from zero:  *)
(* the n-th coin has serial n - 1 and the cache's own cell, so the serials  *)
(* are exactly 0..count-1 without gaps or repeats.                          *)
C23_FreshNumbered ==
    pc = "shown" =>
      \A k \in DOMAIN caches :
         ~MapHas(momentos, caches[k].str) =>
            LET coins == caches[k].coins IN
            /\ Len(coins) \in 1..3
            /\ {coins[n].serial : n \in DOMAIN coins} = 0..(Len(coins) - 1)
            /\ \A n \in DOMAIN coins :
                 /\ coins[n].serial = n - 1
                 /\ coins[n].cell = caches[k].cell
            /\ caches[k].cell = getCellFromPoint(origin)

(* C23 witness: a fresh cache of three coins, of a cell off the origin. *)
C23_Witness ==
    /\ pc = "shown"
    /\ momentos = <<>>
    /\ Len(caches) = 1
    /\ Len(caches[1].coins) = 3
    /\ caches[1].cell = [i |-> -3, j |-> 2]

-----------------------------------------------------------------------------
(* C24: at most one position watch is outstanding at any time, whatever     *)
(* the order of toggles, position updates and failures: a watch is never    *)
(* started while an earlier one can still deliver updates.                  *)
C24_OneSubscription == Cardinality(watches) <= 1

(* C25: while the geolocation flag is false, a step of the running page     *)
(* changes the player's position only if it is a press of a movement        *)
(* button: no position update of a watch is applied, also after a failure   *)
(* has turned the mode off.                                                 *)
C25_OffMeansButtonsOnly ==
    [][(pc = "running" /\ pc' = "running" /\ ~geoloc /\ origin' # origin)
         => \E dir \in Directions : Move(dir)]_vars

Abs(n) == IF n < 0 THEN -n ELSE n

(* C26: a press of a movement button while the geolocation flag is true     *)
(* leaves the position, the caches on the map, the trail and the table as   *)
(* they are; a press while it is false moves the position by one tile       *)
(* width along one axis and refreshes the map once: the caches are those    *)
(* near the new position, the trail gains one point, the new position, and  *)
(* the table is unchanged.                                                  *)
C26_ButtonFrame ==
    [][\A dir \in Directions :
         Move(dir) =>
           IF geoloc
           THEN UNCHANGED <<origin, caches, locHistory, momentos, inventory>>
           ELSE /\ Abs(origin'.lat - origin.lat) + Abs(origin'.lng - origin.lng)
                     = TILE_DEGREES
                /\ origin'.lat = origin.lat \/ origin'.lng = origin.lng
                /\ origin' = latLng(origin.lat + dir.lat, origin.lng + dir.lng)
                /\ caches' = showNearbyCaches(origin', momentos)
                /\ TrailPoints(locHistory') = TrailPoints(locHistory) + 1
                /\ LastRecorded(locHistory') = origin'
                /\ UNCHANGED <<momentos, inventory>>]_vars

(* C26 witness: the player has moved one tile by a button and the mode was  *)
(* turned on afterwards, so that a press now finds the flag true.           *)
C26_Witness ==
    /\ pc = "running"
    /\ geoloc
    /\ watches # {}
    /\ locHistory = <<<<OAKES_CLASSROOM,
                        latLng(OAKES_CLASSROOM.lat, OAKES_CLASSROOM.lng - TILE_DEGREES)>>>>
    /\ origin = latLng(OAKES_CLASSROOM.lat, OAKES_CLASSROOM.lng - TILE_DEGREES)

(* C27: in every state the table agrees with the live objects.  If the      *)
(* table has an "inventory" entry, it is the serialization of the coins the *)
(* inventory holds now, and an inventory that holds coins has such an       *)
(* entry; every cache on the map either has an entry that is the            *)
(* serialization of the coins it holds now, or has no entry and holds       *)
(* exactly the coins of its fresh generation.                               *)
C27_TableAgrees ==
    /\ inventory.coins # <<>> => MapHas(momentos, "inventory")
    /\ MapHas(momentos, "inventory") =>
          MapGet(momentos, "inventory") = Text(CoinsText(inventory.coins))
    /\ \A k \in DOMAIN caches :
          IF MapHas(momentos, caches[k].str)
          THEN MapGet(momentos, caches[k].str) = Text(CoinsText(caches[k].coins))
          ELSE caches[k].coins = FreshCoins(caches[k].cell)

(* C27 witness: in a session restored from a save, the inventory holds      *)
(* coins, one cache on the map has an entry and another has none.           *)
C27_Witness ==
    /\ pc = "running"
    /\ storage.data \notin {Null, Text(<<>>)}
    /\ inventory.coins # <<>>
    /\ \E k \in DOMAIN caches : MapHas(momentos, caches[k].str)
    /\ \E k \in DOMAIN caches : ~MapHas(momentos, caches[k].str)

(* The keys a step's successful transfer has touched, if the step is one. *)
Endpoints ==
    UNION {{{"inventory", caches[n].str} : i \in {i \in ButtonIndices :
                 Collect(n, i) /\ At(caches[n].coins, i) # <<>>}}
           \cup (IF Deposit(n) /\ inventory.coins # <<>>
                 THEN {{"inventory", caches[n].str}} ELSE {}) : n \in DOMAIN caches}

(* The keys of the table saveData left in storage. *)
StoredKeys ==
    IF Truthy(storage.data) /\ ~Throws(storage.data)
    THEN KeySet(JSONparse(storage.data)) ELSE {}

(* C28: the table's keys are those loadData restored and those of the       *)
(* endpoints of the session's successful transfers, and no others: a step   *)
(* of a session that changes the table is loadData, which makes the keys    *)
(* the stored ones, or a successful transfer, which adds its two endpoints, *)
(* "inventory" and the key of the cache, and leaves every other entry,      *)
(* that of "0,0" included, as it is.  Showing or revisiting a cache changes *)
(* nothing.  Every key is "inventory" or the key of a cell whose luck is    *)
(* below the spawn threshold.                                               *)
C28_KeysFromTransfers ==
    [][/\ (pc' # "start" /\ momentos' # momentos) =>
            \/ LoadData /\ KeySet(momentos') = StoredKeys
            \/ \E pair \in Endpoints :
                 /\ KeySet(momentos') = KeySet(momentos) \cup pair
                 /\ \A key \in KeySet(momentos) \ pair :
                      MapGet(momentos', key) = MapGet(momentos, key)
       /\ LoadData => KeySet(momentos') = StoredKeys
       /\ KeySet(momentos') \subseteq
            {"inventory"} \cup {CellKey(c.i, c.j) : c \in SpawnCells}
       /\ inventory'.str = "inventory"]_vars

(* C28 witness: after a collect from cache (0,9), with cache (0,0) on the   *)
(* map, the table has the keys "0,9" and "inventory" and no key "0,0".      *)
C28_Witness ==
    /\ pc = "running"
    /\ KeySet(momentos) = {"inventory", "0,9"}
    /\ \E k \in DOMAIN caches : caches[k].str = "0,0"
    /\ \E t \in Elements(inventory.coins) : t.cell = [i |-> 0, j |-> 9]

(* A step that refreshes the map: the startup, a movement button pressed    *)
(* with the geolocation flag false, a position update of a watch.           *)
Refreshes ==
    \/ StartupRefresh
    \/ ~geoloc /\ \E dir \in Directions : Move(dir)
    \/ \E w \in watches, p \in GeoPoints : GeoUpdate(w, p)

(* The trail's points in the order of recording. *)
RECURSIVE Flat(_)
Flat(hist) == IF hist = <<>> THEN <<>> ELSE Head(hist) \o Flat(Tail(hist))

(* The trail saveData left in storage. *)
StoredTrail == IF Truthy(storage.hist) THEN JSONparse(storage.hist) ELSE <<>>

(* C29: a refresh adds exactly one point to the trail, the player's         *)
(* position, at the end of the last polyline or as a new last polyline,     *)
(* and keeps the points recorded before in place, so after it the last      *)
(* point of the last polyline is the player's position; this holds in every *)
(* running state, the first after loadData included.  No other step of a    *)
(* page changes the trail; loadData restores the stored trail as it was     *)
(* saved, and teardown stores the trail as it is.                           *)
C29_TrailFollowsPlayer ==
    [][/\ Refreshes =>
            /\ \/ locHistory' = Append(locHistory, <<origin'>>)
               \/ /\ locHistory # <<>>
                  /\ locHistory' =
                       [locHistory EXCEPT ![Len(locHistory)] = Append(@, origin')]
            /\ Flat(locHistory') = Flat(locHistory) \o <<origin'>>
            /\ LastRecorded(locHistory') = origin'
       /\ (pc # "start" /\ pc' # "start" /\ locHistory' # locHistory) => Refreshes
       /\ LoadData => locHistory' = StoredTrail
       /\ (Unload /\ saveListener) => storage'.hist = Text(locHistory)
       /\ pc' = "running" =>
            locHistory' # <<>> /\ LastRecorded(locHistory') = origin']_vars

(* C29 witness: a session restored from a save has refreshed at startup:    *)
(* the trail is the restored point and the point of the refresh.            *)
C29_Witness ==
    /\ pc = "running"
    /\ last.op = "startup"
    /\ storage.hist # Null
    /\ StoredTrail # <<>>
    /\ Flat(locHistory) = Flat(StoredTrail) \o <<origin>>

(* C30: the inventory is a stack.  A collect that finds its coin puts it    *)
(* at the end of the inventory, behind the coins held; a deposit with coins *)
(* in the inventory takes the last of them, the one collected latest of     *)
(* those still held, leaves the others in their order and puts it at the    *)
(* end of the cache; so deposits give the coins back in the reverse of the  *)
(* order of their collection.                                               *)
C30_InventoryStack ==
    [][\A n \in DOMAIN caches :
         /\ \A i \in ButtonIndices :
              (Collect(n, i) /\ At(caches[n].coins, i) # <<>>) =>
                 /\ inventory'.coins =
                      Append(inventory.coins, caches[n].coins[i + 1])
                 /\ SubSeq(inventory'.coins, 1, Len(inventory.coins))
                      = inventory.coins
         /\ (Deposit(n) /\ inventory.coins # <<>>) =>
              LET top == Len(inventory.coins) IN
              /\ inventory'.coins = SubSeq(inventory.coins, 1, top - 1)
              /\ caches'[n].coins = Append(caches[n].coins, inventory.coins[top])
              /\ Len(inventory'.coins) = top - 1]_vars

(* C30 witness: all three coins were collected, the coin of (0,9) last, and *)
(* two deposits into cache (0,0) gave back first the coin of (0,9), then    *)
(* serial 1 of (0,0).                                                       *)
C30_Witness ==
    /\ pc = "running"
    /\ inventory.coins = <<Coin(0, 0, 0)>>
    /\ \E k \in DOMAIN caches :
         /\ caches[k].str = "0,0"
         /\ caches[k].coins = <<Coin(0, 9, 0), Coin(0, 0, 1)>>

====
